---- MODULE Spec2Model ----
(***************************************************************************)
(* A model of two files of the turf repository:                            *)
(*   lib/inside.js                        the even-odd point-in-ring test  *)
(*   packages/turf-shortest-path/index.js the grid based shortestPath      *)
(*                                                                          *)
(* Coordinates are exact rationals.  A length is an integer number of      *)
(* 1/Unit coordinate units, so that the 15% box expansion, the default     *)
(* resolution (width / 100) and the halved centring margins are all exact. *)
(***************************************************************************)
EXTENDS Integers, Sequences, FiniteSets, TLC

VARIABLES
    \* ---- lib/inside.js ----
    ipc,            \* position in inside(): "idle", "loop", "done"
    ipoint,         \* point.geometry.coordinates
    iring,          \* polygon.geometry.coordinates[0]
    i,              \* loop index
    j,              \* the "previous vertex" index
    isInside,       \* the accumulator
    doneArg,        \* the value handed to done(null, .)
    \* ---- packages/turf-shortest-path/index.js ----
    pc,             \* position in shortestPath()
    start, end,     \* the caller's start and end
    obstacles,      \* the caller's obstacles (its features list is mutated)
    options,        \* the caller's options
    features0,      \* obstacles.features as it was when the call began
    resolution,     \* var resolution
    box,            \* var box
    grid,           \* cellWidth, cellHeight, columns, rows, deltaX, deltaY
    currentY, r,    \* var currentY, var r
    minDistStart,   \* var minDistStart
    minDistEnd,     \* var minDistEnd
    matrix,         \* var matrix
    pointMatrix,    \* var pointMatrix
    closestToStart, \* var closestToStart
    closestToEnd,   \* var closestToEnd
    searched,       \* whether astar.search was called, and with which nodes
    result,         \* var result
    path,           \* var path
    outcome         \* what the call returned or threw

ivars == <<ipc, ipoint, iring, i, j, isInside, doneArg>>
inputs == <<start, end, options, features0>>
scanVars == <<currentY, r, minDistStart, minDistEnd, matrix, pointMatrix,
              closestToStart, closestToEnd>>
qvars == <<pc, inputs, obstacles, resolution, box, grid, scanVars, searched, result,
           path, outcome>>
vars == <<ivars, qvars>>

\* ------------------------------------------------------------------------
\* Bounds of the model
\* ------------------------------------------------------------------------
\* vertices of the generated rings lie on 0..MaxCoord x 0..MaxCoord
MaxCoord == 1
\* explicit resolutions are 1..MaxResolution coordinate units
MaxResolution == 4
\* the longest node sequence the PathFinder returns
MaxPathLen == 3

\* ------------------------------------------------------------------------
\* Program constants
\* ------------------------------------------------------------------------
\* scale(.., 1.15): the factor 1.15 = ScaleNum / ScaleDen
ScaleNum == 23
ScaleDen == 20
\* resolution = width / 100
DefaultDivisor == 100
\* one coordinate unit, in model lengths
Unit == ScaleDen * DefaultDivisor

Range(s) == {s[k] : k \in 1..Len(s)}

\* ------------------------------------------------------------------------
\* lib/inside.js
\* ------------------------------------------------------------------------

\* x < (xj - xi) * (y - yi) / (yj - yi) + xi, for yj # yi, decided exactly by
\* multiplying through with (yj - yi)
XIntersectionRight(x, y, vi, vj) ==
    LET d == vj[2] - vi[2]
        n == (vj[1] - vi[1]) * (y - vi[2])
    IN  IF d > 0 THEN (x - vi[1]) * d < n ELSE (x - vi[1]) * d > n

\* the condition of the if statement: && evaluates its right side only when
\* the left side holds, and then yj # yi
EdgeToggles(x, y, vi, vj) ==
    /\ (vi[2] > y) # (vj[2] > y)
    /\ XIntersectionRight(x, y, vi, vj)

\* the textbook even-odd test: the previous vertex of vertex k is vertex k-1,
\* and of the first vertex the last one
RECURSIVE EvenOddFrom(_, _, _, _)
EvenOddFrom(pt, ring, k, acc) ==
    IF k > Len(ring) THEN acc
    ELSE LET prev == IF k = 1 THEN Len(ring) ELSE k - 1
         IN  EvenOddFrom(pt, ring, k + 1,
                 IF EdgeToggles(pt[1], pt[2], ring[k], ring[prev]) THEN ~acc ELSE acc)

EvenOdd(pt, ring) == EvenOddFrom(pt, ring, 1, FALSE)

\* j = i is inside the if statement: the previous-vertex index moves only
\* after an iteration whose edge toggled
NextJ(toggled, ci, cj) == IF toggled THEN ci ELSE cj

\* the statements before the loop; the indices of a sequence start at 1
InsideCall(pt, ring) ==
    /\ ipc' = "loop"
    /\ ipoint' = pt
    /\ iring' = ring
    /\ i' = 1
    /\ j' = Len(ring)
    /\ isInside' = FALSE
    /\ UNCHANGED doneArg

InsideIterate ==
    /\ ipc = "loop"
    /\ i <= Len(iring)
    /\ LET toggled == EdgeToggles(ipoint[1], ipoint[2], iring[i], iring[j])
       IN  /\ isInside' = (IF toggled THEN ~isInside ELSE isInside)
           /\ j' = NextJ(toggled, i, j)
    /\ i' = i + 1
    /\ UNCHANGED <<ipc, ipoint, iring, doneArg>>

InsideDone ==
    /\ ipc = "loop"
    /\ i > Len(iring)
    /\ doneArg' = isInside
    /\ ipc' = "done"
    /\ UNCHANGED <<ipoint, iring, i, j, isInside>>

\* ------------------------------------------------------------------------
\* packages/turf-shortest-path/index.js: values
\* ------------------------------------------------------------------------
Pos(x, y) == <<x * Unit, y * Unit>>

\* a GeoJSON feature: its geometry type and the positions of its geometry
\* (one for a Point, the outer ring coordinates[0] for a Polygon)
PointFeature(p) == [type |-> "Point", coords |-> <<p>>]
PolygonFeature(ring) == [type |-> "Polygon", coords |-> ring]
NotAPoint == [type |-> "LineString", coords |-> <<Pos(0, 0), Pos(1, 1)>>]
Missing == [type |-> "undefined", coords |-> <<>>]

FeatureCollection(fs) == [type |-> "FeatureCollection", features |-> fs]
NotACollection == [type |-> "Polygon", features |-> <<>>]
Absent == [type |-> "undefined", features |-> <<>>]

\* a value of options.resolution; a number is held as a model length
Undefined == [t |-> "undefined", v |-> 0]
NaN == [t |-> "NaN", v |-> 0]
Str == [t |-> "string", v |-> 0]
Num(n) == [t |-> "number", v |-> n * Unit]

Return == [kind |-> "return", message |-> ""]
Throw(m) == [kind |-> "throw", message |-> m]
Running == [kind |-> "running", message |-> ""]

\* invariant.getCoord
getCoord(f) == f.coords[1]

\* function getType(geojson, name): the type, or the message of the error
getType(geojson, name) ==
    IF geojson.type = "undefined"
    THEN [ok |-> FALSE, v |-> name \o " is required"]
    ELSE [ok |-> TRUE, v |-> geojson.type]

\* JavaScript: a value in a condition
Truthy(res) == (res.t = "number" /\ res.v # 0) \/ res.t = "string"
\* helpers.isNumber
isNumber(res) == res.t = "number"
\* JavaScript: resolution <= 0 (undefined, NaN and "abc" convert to NaN)
LeqZero(res) == res.t = "number" /\ res.v <= 0

\* options.units || 'kilometers'
Units == IF options.units = "undefined" THEN "kilometers" ELSE options.units

\* ------------------------------------------------------------------------
\* The collaborators shortestPath calls (planar geometry)
\* ------------------------------------------------------------------------
SetMin(S) == CHOOSE m \in S : \A n \in S : m <= n
SetMax(S) == CHOOSE m \in S : \A n \in S : m >= n

\* @turf/bbox of a feature list: [west, south, east, north]
bbox(fs) ==
    LET ps == UNION {Range(fs[k].coords) : k \in 1..Len(fs)}
        xs == {p[1] : p \in ps}
        ys == {p[2] : p \in ps}
    IN  <<SetMin(xs), SetMin(ys), SetMax(xs), SetMax(ys)>>

\* bbox(scale(bboxPolygon(b), 1.15)): the box grown about its centre
scale(b) ==
    LET lo(a, z) == ((ScaleDen + ScaleNum) * a + (ScaleDen - ScaleNum) * z) \div (2 * ScaleDen)
    IN  <<lo(b[1], b[3]), lo(b[2], b[4]), lo(b[3], b[1]), lo(b[4], b[2])>>

\* the units @turf/distance converts to
KnownUnits == {"kilometers", "miles", "degrees", "radians"}

\* @turf/distance along an edge of the box (the two points share a coordinate):
\* the length, or the error an unknown unit raises
distance(a, b, units) ==
    IF units \notin KnownUnits
    THEN [ok |-> FALSE, v |-> 0]
    ELSE [ok |-> TRUE,
          v |-> (IF a[1] >= b[1] THEN a[1] - b[1] ELSE b[1] - a[1])
              + (IF a[2] >= b[2] THEN a[2] - b[2] ELSE b[2] - a[2])]

\* @turf/distance between a node and an endpoint, in the default unit; only
\* compared with <, so the square of the planar distance stands for it
distanceTo(a, b) == (a[1] - b[1]) * (a[1] - b[1]) + (a[2] - b[2]) * (a[2] - b[2])

\* @turf/inside of a position in a feature: the even-odd test on its outer ring
inside(p, feature) == feature.type = "Polygon" /\ EvenOdd(p, feature.coords)

\* function isInside(pt, polygons)
RECURSIVE isInsideFrom(_, _, _)
isInsideFrom(p, fs, k) ==
    IF k > Len(fs) THEN FALSE
    ELSE IF inside(p, fs[k]) THEN TRUE
    ELSE isInsideFrom(p, fs, k + 1)

isInsideObstacles(p, fs) == isInsideFrom(p, fs, 1)

\* ------------------------------------------------------------------------
\* JavaScript strings: a string is a sequence of characters
\* ------------------------------------------------------------------------
DigitChars == <<"0", "1", "2", "3", "4", "5", "6", "7", "8", "9">>

RECURSIVE Digits(_)
Digits(n) == IF n < 10 THEN <<DigitChars[n + 1]>>
             ELSE Digits(n \div 10) \o <<DigitChars[(n % 10) + 1]>>

\* Number.prototype.toString, as  currentX + '|'  applies it
NumberToString(n) == IF n < 0 THEN <<"-">> \o Digits(-n) ELSE Digits(n)

DigitValue(ch) == (CHOOSE d \in 1..10 : DigitChars[d] = ch) - 1

RECURSIVE DigitsValue(_, _)
DigitsValue(str, acc) ==
    IF str = <<>> THEN acc
    ELSE DigitsValue(Tail(str), 10 * acc + DigitValue(Head(str)))

\* the unary +: a string to a number
StringToNumber(str) ==
    IF str # <<>> /\ Head(str) = "-" THEN -DigitsValue(Tail(str), 0)
    ELSE DigitsValue(str, 0)

\* String.prototype.split with a one character separator
RECURSIVE SplitFrom(_, _, _, _)
SplitFrom(str, sep, cur, done) ==
    IF str = <<>> THEN Append(done, cur)
    ELSE IF Head(str) = sep THEN SplitFrom(Tail(str), sep, <<>>, Append(done, cur))
    ELSE SplitFrom(Tail(str), sep, Append(cur, Head(str)), done)

split(str, sep) == SplitFrom(str, sep, <<>>, <<>>)

\* ------------------------------------------------------------------------
\* packages/turf-shortest-path/index.js: the grid and its scan
\* ------------------------------------------------------------------------
West == box[1]
South == box[2]
East == box[3]
North == box[4]

\* (a variant of GridOf: the margins are not halved)
GridOfOneEdge(res, xd, yd) ==
    LET cellWidth == (res * (East - West)) \div xd
        cellHeight == (res * (North - South)) \div yd
        bboxHorizontalSide == East - West
        bboxVerticalSide == North - South
        columns == bboxHorizontalSide \div cellWidth
        rows == bboxVerticalSide \div cellHeight
    IN  [cellWidth |-> cellWidth, cellHeight |-> cellHeight,
         columns |-> columns, rows |-> rows,
         deltaX |-> bboxHorizontalSide - columns * cellWidth,
         deltaY |-> bboxVerticalSide - rows * cellHeight]

\* cellWidth, cellHeight, columns, rows, deltaX, deltaY from the box, the
\* resolution res and the two edge lengths xd and yd
GridOf(res, xd, yd) ==
    LET cellWidth == (res * (East - West)) \div xd
        cellHeight == (res * (North - South)) \div yd
        bboxHorizontalSide == East - West
        bboxVerticalSide == North - South
        columns == bboxHorizontalSide \div cellWidth
        rows == bboxVerticalSide \div cellHeight
    IN  [cellWidth |-> cellWidth, cellHeight |-> cellHeight,
         columns |-> columns, rows |-> rows,
         deltaX |-> (bboxHorizontalSide - columns * cellWidth) \div 2,
         deltaY |-> (bboxVerticalSide - rows * cellHeight) \div 2]

\* minDistStart = Infinity
Infinity == [inf |-> TRUE, v |-> 0]
Finite(d) == [inf |-> FALSE, v |-> d]
\* closestToStart = {x: c, y: r}
Cell(col, row) == [set |-> TRUE, x |-> col, y |-> row]
\* (a variant of Unset: the closest nodes start as the first node)
UnsetFirstNode == Cell(0, 0)
\* closestToStart = []: a value without x and y
Unset == [set |-> FALSE, x |-> 0, y |-> 0]

\* isInsideObstacle ? 0 : 1
Weight(isInsideObstacle) == IF isInsideObstacle THEN 0 ELSE 1

\* (a variant of FormatNode: the two coordinates change places)
FormatNodeSwapped(x, y) == NumberToString(y) \o <<"|">> \o NumberToString(x)

\* currentX + '|' + currentY
FormatNode(x, y) == NumberToString(x) \o <<"|">> \o NumberToString(y)

\* (a variant of Closer: <= in place of <)
CloserOrEqual(isInsideObstacle, dist, minDist) ==
    ~isInsideObstacle /\ (minDist.inf \/ dist <= minDist.v)

\* !isInsideObstacle && dist < minDist
Closer(isInsideObstacle, dist, minDist) ==
    ~isInsideObstacle /\ (minDist.inf \/ dist < minDist.v)

\* the body of the inner while loop, on the values acc the loops carry
ScanNode(acc) ==
    LET pt == <<acc.currentX, currentY>>
        isInsideObstacle == isInsideObstacles(pt, obstacles.features)
        distStart == distanceTo(pt, getCoord(start))
        distEnd == distanceTo(pt, getCoord(end))
        s == Closer(isInsideObstacle, distStart, acc.minDistStart)
        e == Closer(isInsideObstacle, distEnd, acc.minDistEnd)
    IN  [matrixRow |-> Append(acc.matrixRow, Weight(isInsideObstacle)),
         pointMatrixRow |-> Append(acc.pointMatrixRow, FormatNode(acc.currentX, currentY)),
         minDistStart |-> IF s THEN Finite(distStart) ELSE acc.minDistStart,
         closestToStart |-> IF s THEN Cell(acc.c, r) ELSE acc.closestToStart,
         minDistEnd |-> IF e THEN Finite(distEnd) ELSE acc.minDistEnd,
         closestToEnd |-> IF e THEN Cell(acc.c, r) ELSE acc.closestToEnd,
         currentX |-> acc.currentX + grid.cellWidth,
         c |-> acc.c + 1]

\* while (currentX <= east)
RECURSIVE ScanRow(_)
ScanRow(acc) == IF acc.currentX <= East THEN ScanRow(ScanNode(acc)) ELSE acc

\* ------------------------------------------------------------------------
\* javascript-astar: Graph and astar.search
\* ------------------------------------------------------------------------
\* graph.grid[a][b]: the GridNode made from matrix[a][b]
GridNode(a, b) == [x |-> a, y |-> b]
InGrid(n) == /\ n.x >= 0 /\ n.x < Len(matrix)
             /\ n.y >= 0 /\ n.y < Len(matrix[n.x + 1])
IsWall(n) == matrix[n.x + 1][n.y + 1] = 0

\* the neighbours of a node with diagonal: true, walls left out
Neighbors(n) ==
    {m \in {GridNode(n.x + dx, n.y + dy) : dx \in -1..1, dy \in -1..1} :
        m # n /\ InGrid(m) /\ ~IsWall(m)}

\* layers[k] holds the nodes k - 1 steps from the first layer; the layers up
\* to the one that holds goal, or <<>> when goal cannot be reached
RECURSIVE LayersTo(_, _, _)
LayersTo(goal, layers, seen) ==
    LET front == layers[Len(layers)]
        next == (UNION {Neighbors(n) : n \in front}) \ seen
    IN  IF goal \in front THEN layers
        ELSE IF next = {} THEN <<>>
        ELSE LayersTo(goal, Append(layers, next), seen \cup next)

\* from a node of layer k down to layer 1, one node of each layer
RECURSIVE Descend(_, _, _)
Descend(n, layers, k) ==
    IF k = 1 THEN <<>>
    ELSE LET m == CHOOSE m \in Neighbors(n) \cap layers[k - 1] : TRUE
         IN  <<m>> \o Descend(m, layers, k - 1)

\* the node sequences of at most k nodes that lead from node n (left out) to
\* node goal (the last one) and visit no node of seen
RECURSIVE Routes(_, _, _, _)
Routes(n, goal, seen, k) ==
    IF k = 0 THEN {}
    ELSE UNION {IF m = goal THEN {<<m>>}
                ELSE {<<m>> \o rest : rest \in Routes(m, goal, seen \cup {m}, k - 1)}
                : m \in Neighbors(n) \ seen}

\* what astar.search(graph, s, e) may return: nothing when s is e or e cannot
\* be reached from s, else a route from s (left out) to e: one with the fewest
\* nodes, or any of at most MaxPathLen nodes
SearchResults(s, e) ==
    LET layers == LayersTo(s, <<{e}>>, {e})
    IN  IF s = e \/ layers = <<>> THEN {<<>>}
        ELSE {Descend(s, layers, Len(layers))} \cup Routes(s, e, {s}, MaxPathLen)

\* ------------------------------------------------------------------------
\* @turf/clean-coords
\* ------------------------------------------------------------------------
\* whether p lies on the segment from a to b
IsPointOnLineSegment(a, b, p) ==
    /\ (b[1] - a[1]) * (p[2] - a[2]) = (b[2] - a[2]) * (p[1] - a[1])
    /\ p[1] >= (IF a[1] <= b[1] THEN a[1] ELSE b[1])
    /\ p[1] <= (IF a[1] <= b[1] THEN b[1] ELSE a[1])
    /\ p[2] >= (IF a[2] <= b[2] THEN a[2] ELSE b[2])
    /\ p[2] <= (IF a[2] <= b[2] THEN b[2] ELSE a[2])

\* the points of a line without those that lie between their two neighbours;
\* the first and the last point stay
RECURSIVE CleanFrom(_, _, _)
CleanFrom(points, k, acc) ==
    IF k > Len(points) THEN acc
    ELSE IF k = 1 \/ k = Len(points)
            \/ ~IsPointOnLineSegment(points[k - 1], points[k + 1], points[k])
    THEN CleanFrom(points, k + 1, Append(acc, points[k]))
    ELSE CleanFrom(points, k + 1, acc)

cleanCoords(points) == CleanFrom(points, 1, <<>>)

\* ------------------------------------------------------------------------
\* packages/turf-shortest-path/index.js: shortestPath, statement by statement
\* ------------------------------------------------------------------------
Throws(m) == pc' = "done" /\ outcome' = Throw(m)

\* the three validation statements: the message thrown, or "" for none
ValidationError ==
    LET ts == getType(start, "start")
        te == getType(end, "end")
    IN  IF ~ts.ok THEN ts.v
        ELSE IF ts.v # "Point" THEN "start must be Point"
        ELSE IF ~te.ok THEN te.v
        ELSE IF te.v # "Point" THEN "end must be Point"
        ELSE IF obstacles.type # "undefined" /\ getType(obstacles, "geojson").v # "FeatureCollection"
        THEN "obstacles must be FeatureCollection"
        ELSE ""

Validate ==
    /\ pc = "validate"
    /\ IF ValidationError # "" THEN Throws(ValidationError)
       ELSE pc' = "noObstacles" /\ UNCHANGED outcome
    /\ UNCHANGED <<inputs, obstacles, resolution, box, grid, scanVars, searched, result, path>>

\* !obstacles || obstacles.features.length === 0
NoObstacles(obs) == obs.type = "undefined" \/ Len(obs.features) = 0

\* (a variant of StraightLine: start taken twice)
StraightLineStartTwice(s, e) == <<getCoord(s), getCoord(s)>>

\* lineString([getCoord(start), getCoord(end)])
StraightLine(s, e) == <<getCoord(s), getCoord(e)>>

ShortCircuit ==
    /\ pc = "noObstacles"
    /\ IF NoObstacles(obstacles)
       THEN /\ path' = StraightLine(start, end)
            /\ outcome' = Return
            /\ pc' = "done"
       ELSE /\ pc' = "options"
            /\ UNCHANGED <<path, outcome>>
    /\ UNCHANGED <<inputs, obstacles, resolution, box, grid, scanVars, searched, result>>

\* resolution && !isNumber(resolution) || resolution <= 0
InvalidResolution(res) == (Truthy(res) /\ ~isNumber(res)) \/ LeqZero(res)

CheckResolution ==
    /\ pc = "options"
    /\ resolution' = options.resolution
    /\ IF InvalidResolution(options.resolution)
       THEN Throws("resolution must be a number, greater than 0")
       ELSE pc' = "push" /\ UNCHANGED outcome
    /\ UNCHANGED <<inputs, obstacles, box, grid, scanVars, searched, result, path>>

\* collection = obstacles; collection.features.push(start); ...push(end)
PushTwice(fs, s, e) == fs \o <<s, e>>

PushEndpoints ==
    /\ pc = "push"
    /\ obstacles' = [obstacles EXCEPT !.features = PushTwice(@, start, end)]
    /\ pc' = "box"
    /\ UNCHANGED <<inputs, resolution, box, grid, scanVars, searched, result, path, outcome>>

ComputeBox ==
    /\ pc = "box"
    /\ box' = scale(bbox(obstacles.features))
    /\ pc' = "derive"
    /\ UNCHANGED <<inputs, obstacles, resolution, grid, scanVars, searched, result, path, outcome>>

\* if (!resolution) { width = distance(.., units); resolution = width / 100 }
DeriveResolution ==
    /\ pc = "derive"
    /\ IF ~Truthy(resolution)
       THEN LET width == distance(<<box[1], box[2]>>, <<box[3], box[2]>>, Units)
            IN  IF ~width.ok
                THEN Throws("Invalid unit") /\ UNCHANGED resolution
                ELSE /\ resolution' = [t |-> "number", v |-> width.v \div DefaultDivisor]
                     /\ pc' = "pop"
                     /\ UNCHANGED outcome
       ELSE pc' = "pop" /\ UNCHANGED <<resolution, outcome>>
    /\ UNCHANGED <<inputs, obstacles, box, grid, scanVars, searched, result, path>>

\* collection.features.pop(), twice
PopTwice(fs) == SubSeq(fs, 1, Len(fs) - 2)

PopEndpoints ==
    /\ pc = "pop"
    /\ obstacles' = [obstacles EXCEPT !.features = PopTwice(@)]
    /\ pc' = "grid"
    /\ UNCHANGED <<inputs, resolution, box, grid, scanVars, searched, result, path, outcome>>

\* from  var west = box[0]  to  var r = 0
BuildGrid ==
    /\ pc = "grid"
    /\ LET xd == distance(<<West, South>>, <<East, South>>, Units)
           yd == distance(<<West, South>>, <<West, North>>, Units)
       IN  IF ~xd.ok \/ ~yd.ok
           THEN Throws("Invalid unit") /\ UNCHANGED <<grid, currentY>>
           ELSE /\ grid' = GridOf(resolution.v, xd.v, yd.v)
                /\ currentY' = North - grid'.deltaY
                /\ pc' = "scan"
                /\ UNCHANGED outcome
    /\ UNCHANGED <<inputs, obstacles, resolution, box, r, minDistStart, minDistEnd,
                   matrix, pointMatrix, closestToStart, closestToEnd, searched,
                   result, path>>

\* one iteration of  while (currentY >= south)
ScanRowStep ==
    /\ pc = "scan"
    /\ currentY >= South
    /\ LET acc == ScanRow([matrixRow |-> <<>>, pointMatrixRow |-> <<>>,
                           minDistStart |-> minDistStart,
                           closestToStart |-> closestToStart,
                           minDistEnd |-> minDistEnd,
                           closestToEnd |-> closestToEnd,
                           currentX |-> West + grid.deltaX, c |-> 0])
       IN  /\ matrix' = Append(matrix, acc.matrixRow)
           /\ pointMatrix' = Append(pointMatrix, acc.pointMatrixRow)
           /\ minDistStart' = acc.minDistStart
           /\ closestToStart' = acc.closestToStart
           /\ minDistEnd' = acc.minDistEnd
           /\ closestToEnd' = acc.closestToEnd
    /\ currentY' = currentY - grid.cellHeight
    /\ r' = r + 1
    /\ UNCHANGED <<pc, inputs, obstacles, resolution, box, grid, searched, result,
                   path, outcome>>

\* the end of the outer loop
ScanDone ==
    /\ pc = "scan"
    /\ ~(currentY >= South)
    /\ pc' = "search"
    /\ UNCHANGED <<inputs, obstacles, resolution, box, grid, scanVars, searched,
                   result, path, outcome>>

\* graph.grid[closest.y][closest.x]
OnMatrix(closest) == GridNode(closest.y, closest.x)

\* new Graph(matrix); startOnMatrix; endOnMatrix; astar.search(..)
Search ==
    /\ pc = "search"
    /\ IF ~closestToStart.set \/ ~closestToEnd.set
       THEN /\ Throws("TypeError: Cannot read property 'undefined' of undefined")
            /\ UNCHANGED <<searched, result>>
       ELSE /\ \E nodes \in SearchResults(OnMatrix(closestToStart), OnMatrix(closestToEnd)) :
                   result' = nodes
            /\ searched' = [called |-> TRUE,
                            startOnMatrix |-> OnMatrix(closestToStart),
                            endOnMatrix |-> OnMatrix(closestToEnd)]
            /\ pc' = "reconstruct"
            /\ UNCHANGED outcome
    /\ UNCHANGED <<inputs, obstacles, resolution, box, grid, scanVars, path>>

\* coords = pointMatrix[coord.x][coord.y].split('|'); [+coords[0], +coords[1]]
MapNode(coord) ==
    LET coords == split(pointMatrix[coord.x + 1][coord.y + 1], "|")
    IN  <<StringToNumber(coords[1]), StringToNumber(coords[2])>>

\* (a variant of BuildPath: the path begins at the start node, not at start)
BuildPathSnapped(s, nodes, e) ==
    <<MapNode(OnMatrix(closestToStart))>>
        \o [k \in 1..Len(nodes) |-> MapNode(nodes[k])] \o <<getCoord(e)>>

\* (a variant of BuildPath: end is not pushed)
BuildPathNoEnd(s, nodes, e) ==
    <<getCoord(s)>> \o [k \in 1..Len(nodes) |-> MapNode(nodes[k])]

\* path = [start.geometry.coordinates]; result.forEach(..); path.push(end..)
BuildPath(s, nodes, e) ==
    <<getCoord(s)>> \o [k \in 1..Len(nodes) |-> MapNode(nodes[k])] \o <<getCoord(e)>>

Reconstruct ==
    /\ pc = "reconstruct"
    /\ path' = BuildPath(start, result, end)
    /\ pc' = "clean"
    /\ UNCHANGED <<inputs, obstacles, resolution, box, grid, scanVars, searched,
                   result, outcome>>

\* return cleanCoords(lineString(path))
ReturnPath ==
    /\ pc = "clean"
    /\ path' = cleanCoords(path)
    /\ outcome' = Return
    /\ pc' = "done"
    /\ UNCHANGED <<inputs, obstacles, resolution, box, grid, scanVars, searched, result>>

\* ------------------------------------------------------------------------
\* The calls the model makes
\* ------------------------------------------------------------------------
Rect(w, s, e, n) == <<Pos(w, s), Pos(e, s), Pos(e, n), Pos(w, n), Pos(w, s)>>
Triangle(a, b, c) == <<a, b, c, a>>

\* the obstacles of the example in the documentation of shortestPath
ExampleObstacles == <<PolygonFeature(Rect(0, -7, 5, -3))>>

ObstacleLists ==
    { ExampleObstacles,
      <<PolygonFeature(Rect(0, 0, 3, 3))>>,
      <<PolygonFeature(Rect(1, 0, 2, 2))>>,
      <<PolygonFeature(Rect(2, 0, 4, 3))>>,
      <<PolygonFeature(Triangle(Pos(0, 0), Pos(2, 0), Pos(0, 2))),
        PolygonFeature(Triangle(Pos(3, 3), Pos(3, 1), Pos(1, 3)))>> }

StartValues ==
    {PointFeature(p) : p \in {Pos(-5, -6), Pos(0, 1), Pos(1, 1)}} \cup {NotAPoint, Missing}
EndValues ==
    {PointFeature(p) : p \in {Pos(9, -6), Pos(6, 1), Pos(3, 1), Pos(1, 1), Pos(2, 2)}}
        \cup {NotAPoint}
ObstacleValues ==
    {FeatureCollection(fs) : fs \in ObstacleLists}
        \cup {FeatureCollection(<<>>), Absent, NotACollection}
ResolutionValues ==
    {Num(n) : n \in -1..MaxResolution} \cup {Undefined, NaN, Str}
OptionValues ==
    [units : {"undefined", "furlongs"}, resolution : ResolutionValues]

\* the example in the documentation of shortestPath
Example == <<PointFeature(Pos(-5, -6)), PointFeature(Pos(9, -6)),
             FeatureCollection(ExampleObstacles)>>

\* a call that builds a grid with the default resolution (100 columns); of
\* these the model makes the example's call only
DefaultGrid ==
    /\ ValidationError = ""
    /\ ~NoObstacles(obstacles)
    /\ ~Truthy(options.resolution)
    /\ ~InvalidResolution(options.resolution)
    /\ Units \in KnownUnits

IdleInside ==
    /\ ipoint = <<0, 0>>
    /\ iring = <<>>
    /\ i = 0
    /\ j = 0
    /\ isInside = FALSE
    /\ doneArg = FALSE

IdleQuery ==
    /\ start = Missing
    /\ end = Missing
    /\ obstacles = Absent
    /\ options = [units |-> "undefined", resolution |-> Undefined]
    /\ features0 = <<>>

Locals ==
    /\ resolution = Undefined
    /\ box = <<0, 0, 0, 0>>
    /\ grid = [cellWidth |-> 0, cellHeight |-> 0, columns |-> 0, rows |-> 0,
               deltaX |-> 0, deltaY |-> 0]
    /\ currentY = 0
    /\ r = 0
    /\ minDistStart = Infinity
    /\ minDistEnd = Infinity
    /\ matrix = <<>>
    /\ pointMatrix = <<>>
    /\ closestToStart = Unset
    /\ closestToEnd = Unset
    /\ searched = [called |-> FALSE, startOnMatrix |-> GridNode(0, 0),
                   endOnMatrix |-> GridNode(0, 0)]
    /\ result = <<>>
    /\ path = <<>>
    /\ outcome = Running

\* one call of shortestPath(start, end, obstacles, options)
Init ==
    /\ ipc = "unused"
    /\ IdleInside
    /\ pc = "validate"
    /\ start \in StartValues
    /\ end \in EndValues
    /\ obstacles \in ObstacleValues
    /\ options \in OptionValues
    /\ DefaultGrid => <<start, end, obstacles>> = Example
    /\ features0 = obstacles.features
    /\ Locals

Next ==
    \/ Validate /\ UNCHANGED ivars
    \/ ShortCircuit /\ UNCHANGED ivars
    \/ CheckResolution /\ UNCHANGED ivars
    \/ PushEndpoints /\ UNCHANGED ivars
    \/ ComputeBox /\ UNCHANGED ivars
    \/ DeriveResolution /\ UNCHANGED ivars
    \/ PopEndpoints /\ UNCHANGED ivars
    \/ BuildGrid /\ UNCHANGED ivars
    \/ ScanRowStep /\ UNCHANGED ivars
    \/ ScanDone /\ UNCHANGED ivars
    \/ Search /\ UNCHANGED ivars
    \/ Reconstruct /\ UNCHANGED ivars
    \/ ReturnPath /\ UNCHANGED ivars

Spec == Init /\ [][Next]_vars

\* calls of inside(point, polygon, done)
Lattice == (0..MaxCoord) \X (0..MaxCoord)
\* the square and the two points of the hit-test example
ExampleSquare == <<<<0, 0>>, <<0, 10>>, <<10, 10>>, <<10, 0>>, <<0, 0>>>>
InsidePoints == Lattice \cup {<<5, 5>>, <<15, 15>>}
InsideRings ==
    {Triangle(a, b, c) : a \in Lattice, b \in Lattice, c \in Lattice}
        \cup {ExampleSquare}

InitInside ==
    /\ ipc = "idle"
    /\ IdleInside
    /\ pc = "unused"
    /\ IdleQuery
    /\ Locals

NextInside ==
    \/ /\ ipc = "idle"
       /\ \E pt \in InsidePoints, ring \in InsideRings : InsideCall(pt, ring)
       /\ UNCHANGED qvars
    \/ InsideIterate /\ UNCHANGED qvars
    \/ InsideDone /\ UNCHANGED qvars

SpecInside == InitInside /\ [][NextInside]_vars

\* ------------------------------------------------------------------------
\* Properties
\* ------------------------------------------------------------------------
Finished == pc = "done"
Returned == pc = "done" /\ outcome.kind = "return"
Threw == pc = "done" /\ outcome.kind = "throw"
PointsGiven == start.type = "Point" /\ end.type = "Point"
\* the obstacles the caller passed are absent or an empty collection
NoObstaclesGiven ==
    obstacles.type = "undefined" \/ (obstacles.type = "FeatureCollection" /\ features0 = <<>>)
\* the obstacles the caller passed are a collection that is not empty
ObstaclesGiven == obstacles.type = "FeatureCollection" /\ features0 # <<>>
\* both loops of the scan have ended
ScanFinished == r > 0 /\ currentY < South
\* the position of the node in row row and column col (both from 0), by the
\* formula of the grid
NodePosition(row, col) ==
    <<West + grid.deltaX + col * grid.cellWidth, North - grid.deltaY - row * grid.cellHeight>>
\* the (row, col) indices of the matrix
Cells == {<<row, col>> : row \in 0..(Len(matrix) - 1), col \in 0..(Len(matrix[1]) - 1)}
FreeCells == {rc \in Cells : ~isInsideObstacles(NodePosition(rc[1], rc[2]), features0)}

\* C1: when inside() is done, the value it hands to done is the value of the
\* textbook even-odd test of the point against the ring
C1_InsideIsEvenOdd == ipc = "done" => doneArg = EvenOdd(ipoint, iring)

\* C2: when a call has ended, by a return or by an error, obstacles.features
\* is what it was when the call began
C2_ObstaclesUnchanged == Finished => obstacles.features = features0

\* C3: a call whose resolution is given and is not a number or is <= 0 ends
\* with an error, whatever the obstacles are; and a call without a resolution
\* never ends with the error of the resolution check
C3_ResolutionRejected ==
    /\ (Finished /\ options.resolution # Undefined
            /\ (~isNumber(options.resolution) \/ options.resolution.v <= 0))
        => Threw
    /\ (Finished /\ options.resolution = Undefined)
        => outcome # Throw("resolution must be a number, greater than 0")

\* C4: once the scan of a call with obstacles has ended with every node
\* blocked, the start and end nodes are unset, the PathFinder is never given
\* a node, no path is returned and the call ends with an error
C4_AllBlockedFails ==
    (ScanFinished /\ FreeCells = {})
    => /\ ~closestToStart.set
       /\ ~closestToEnd.set
       /\ ~searched.called
       /\ outcome.kind # "return"
       /\ Finished => Threw
C4_Witness == Threw /\ ScanFinished /\ FreeCells = {} /\ Len(matrix) > 1

\* C5: a call with start and end Points and absent or empty obstacles returns
\* exactly [start, end]; it builds no grid and calls no PathFinder
C5_NoObstacleShortcut ==
    (PointsGiven /\ NoObstaclesGiven)
    => /\ pc \in {"validate", "noObstacles", "done"}
       /\ matrix = <<>> /\ r = 0 /\ ~searched.called
       /\ Finished => (Returned /\ path = <<start.coords[1], end.coords[1]>>)
C5_Witness ==
    /\ Returned /\ PointsGiven /\ NoObstaclesGiven
    /\ obstacles.type = "FeatureCollection"
    /\ start.coords[1] # end.coords[1]

\* C6: the path a call with obstacles returns begins with the caller's start
\* coordinate and ends with the caller's end coordinate, before and after
\* the simplification
C6_EndpointsPreserved ==
    (ObstaclesGiven /\ (pc = "clean" \/ Returned))
    => /\ Len(path) >= 2
       /\ path[1] = start.coords[1]
       /\ path[Len(path)] = end.coords[1]
C6_Witness ==
    /\ Returned /\ ObstaclesGiven /\ Len(path) > 2
    /\ NodePosition(closestToStart.y, closestToStart.x) # start.coords[1]
    /\ NodePosition(closestToEnd.y, closestToEnd.x) # end.coords[1]
    /\ Len(path) < Len(result) + 2

\* C7: every vertex between the first and the last of the path of a call with
\* obstacles is the position of a grid node that the scan recorded as free
\* and that lies in no obstacle
C7_VerticesAreFreeNodes ==
    (ObstaclesGiven /\ (pc = "clean" \/ Returned))
    => \A k \in 2..(Len(path) - 1) :
          \E rc \in FreeCells :
             /\ path[k] = NodePosition(rc[1], rc[2])
             /\ matrix[rc[1] + 1][rc[2] + 1] = 1
C7_Witness ==
    /\ Returned /\ ObstaclesGiven /\ Len(path) > 3
    /\ Len(matrix) # Len(matrix[1])
    /\ \E rc \in Cells : rc \notin FreeCells

\* C8 as claimed: the matrix of a finished scan has grid.rows rows and
\* grid.columns entries in every row
C8_RowsByColumns ==
    ScanFinished
    => /\ Len(matrix) = grid.rows
       /\ \A k \in 1..Len(matrix) : Len(matrix[k]) = grid.columns

\* C8 as amended: rows and columns are the floors of the quotients, the margins
\* are half of what the cells leave over, the scan visits the nodes
\* NodePosition(row, col) that lie in the box, and so the matrix has
\* grid.rows + 1 rows and grid.columns + 1 entries in every row
C8_RowsAndColumnsPlusOne ==
    ScanFinished
    => /\ grid.rows * grid.cellHeight <= North - South
       /\ (grid.rows + 1) * grid.cellHeight > North - South
       /\ grid.columns * grid.cellWidth <= East - West
       /\ (grid.columns + 1) * grid.cellWidth > East - West
       /\ 2 * grid.deltaX = (East - West) - grid.columns * grid.cellWidth
       /\ 2 * grid.deltaY = (North - South) - grid.rows * grid.cellHeight
       /\ Len(matrix) = grid.rows + 1
       /\ Len(pointMatrix) = grid.rows + 1
       /\ \A k \in 1..Len(matrix) :
             /\ Len(matrix[k]) = grid.columns + 1
             /\ Len(pointMatrix[k]) = grid.columns + 1
             /\ \A c \in 1..Len(matrix[k]) :
                   pointMatrix[k][c] = FormatNode(NodePosition(k - 1, c - 1)[1],
                                                  NodePosition(k - 1, c - 1)[2])
C8_Witness ==
    /\ ScanFinished /\ grid.rows > 0 /\ grid.columns > 1
    /\ grid.deltaX > 0 /\ grid.deltaY > 0

\* scan order: rows from north to south, in a row columns from west to east
Before(a, b) == a[1] < b[1] \/ (a[1] = b[1] /\ a[2] <= b[2])
\* cell is a free node closest to the position p, the first of those in scan order
FirstClosestFree(cell, p) ==
    /\ cell.set
    /\ <<cell.y, cell.x>> \in FreeCells
    /\ \A rc \in FreeCells :
          LET d == distanceTo(NodePosition(rc[1], rc[2]), p)
              dc == distanceTo(NodePosition(cell.y, cell.x), p)
          IN  dc <= d /\ (dc = d => Before(<<cell.y, cell.x>>, rc))

\* C9: after a scan that found a free node, the start node and the end node
\* are the first closest free nodes of start and end, and these are the nodes
\* the PathFinder is given
C9_ClosestFreeNodes ==
    (ScanFinished /\ FreeCells # {})
    => /\ FirstClosestFree(closestToStart, start.coords[1])
       /\ FirstClosestFree(closestToEnd, end.coords[1])
       /\ searched.called
           => /\ searched.startOnMatrix = GridNode(closestToStart.y, closestToStart.x)
              /\ searched.endOnMatrix = GridNode(closestToEnd.y, closestToEnd.x)
\* a blocked node is closer to start than the start node, and another free
\* node is as close to end as the end node
C9_Witness ==
    /\ searched.called
    /\ \E rc \in Cells \ FreeCells :
          distanceTo(NodePosition(rc[1], rc[2]), start.coords[1])
            < distanceTo(NodePosition(closestToStart.y, closestToStart.x), start.coords[1])
    /\ \E rc \in FreeCells :
          /\ rc # <<closestToEnd.y, closestToEnd.x>>
          /\ distanceTo(NodePosition(rc[1], rc[2]), end.coords[1])
               = distanceTo(NodePosition(closestToEnd.y, closestToEnd.x), end.coords[1])

\* C10: a call with obstacles whose PathFinder returned no node returns
\* exactly [start, end]
C10_EmptyResultIsStraightLine ==
    (Finished /\ ObstaclesGiven /\ searched.called /\ result = <<>>)
    => (Returned /\ path = <<start.coords[1], end.coords[1]>>)
\* no route: the start node and the end node differ
C10_Witness ==
    /\ Returned /\ ObstaclesGiven /\ searched.called /\ result = <<>>
    /\ searched.startOnMatrix # searched.endOnMatrix

====
